---- MODULE Spec2Model ----
(***************************************************************************)
(* Model of the raster-to-vector tracing engine traceImageToSVG of         *)
(* src/utils/imageUtils.ts: the colour comparator, the greedy region       *)
(* grower, the path accumulator, the batch scheduler with its progress     *)
(* callback and cooperative yield, and the document serializer.            *)
(*                                                                         *)
(* Representation notes.                                                   *)
(*  - A packed pixel is a Uint32 in the source.  TLC's integers are 32-bit  *)
(*    signed, so the model stores ToInt32 of the packed value (a bijection, *)
(*    and exactly the conversion `color >> k` performs before shifting).   *)
(*    Equality of packed values and the channel extraction                 *)
(*    (color >> k) & 0xff are unchanged by it.                             *)
(*  - Numbers of the source are IEEE-754 doubles.  Where a quotient is     *)
(*    rounded (the progress percentage, the scale) the model computes the  *)
(*    double:                                                              *)
(*    a double is a record [m, e], m the significand as a sequence of bits *)
(*    (most significant first), the value being m * 2^e.                   *)
(*  - A path command `M{x-b},{y-b}h{w+2b}v{h+2b}h-{w+2b}z` is a record of   *)
(*    its four numbers in tenths (b = 0.2): for integers below 2^13 the    *)
(*    doubles x-0.2 and w+0.4 print with exactly one decimal digit.        *)
(***************************************************************************)
EXTENDS Integers, Sequences, FiniteSets

\* ------------------------------------------------------------------ bounds

\* Exhaustive small buffers: every W x H with W*H <= MaxCells.
MaxCells == 4
\* Two-band buffers of width 2: each band is 1..MaxBandH rows high.
MaxBandH == 2
\* Tall one-column buffers: height 2*BATCH_ROWS .. 2*BATCH_ROWS + MaxExtraRows.
MaxExtraRows == 1
\* Tall buffers change colour at a row within MaxSplitSpan of the first batch end.
MaxSplitSpan == 4
\* Channel values of the comparator's inputs: 0..CmpSpan and 255-CmpSpan..255.
CmpSpan == 1
\* Batch sizes compared with BATCH_ROWS: 1..MaxBatch and the whole height.
MaxBatch == 2
\* Source sizes of the target-size computation: 1..MaxSrc and two larger ones.
MaxSrc == 5
\* Box sizes (maxWidth, maxHeight): 1..MaxBox, one larger one and the default.
MaxBox == 4
\* superSample ranges over 1..MaxSuper.
MaxSuper == 3

\* The retry counts tried besides the default: 0..MaxRetries.
MaxRetries == 3

\* The first delays tried besides the default: 0..MaxDelay milliseconds.
MaxDelay == 2

\* ------------------------------------------------------- program constants

\* const BATCH_ROWS = 25
BATCH_ROWS == 25
\* the near-zero alpha threshold: `< 2`
ALPHA_MIN == 2
\* the bleed b = 0.2, in tenths
BLEED10 == 2
\* superSample of the default options and of handleVectorize
SUPER_SAMPLE == 2
\* significand width of a double
DBL_BITS == 53

\* fetchWithRetry's default retries.
RETRIES == 5

\* fetchWithRetry's default delay, in milliseconds.
DELAY == 1000

\* The digits handled at once by the division and the multiplication of
\* doubles: products of two numbers below 2^CHUNK fit TLC's integers.
CHUNK == 15

\* ------------------------------------------------------------ small helpers

Min(a, b) == IF a < b THEN a ELSE b

Abs(a) == IF a < 0 THEN 0 - a ELSE a

\* ------------------------------------------------------------ packed colours

\* The Uint32 view of the four RGBA bytes (little-endian: r lowest, a highest),
\* as ToInt32 of the packed value.
Pack(a, b, g, r) ==
  (IF a >= 128 THEN a - 256 ELSE a) * 16777216 + b * 65536 + g * 256 + r

\* (color >> 24) & 0xff
Alpha(color) == (color \div 16777216) % 256

\* (color >> 16) & 0xff
Blue(color) == (color \div 65536) % 256

\* (color >> 8) & 0xff
Green(color) == (color \div 256) % 256

\* color & 0xff
Red(color) == color % 256

\* A mutant of isColorSimilar: the alpha distance is not compared.
isColorSimilarNoAlpha(color1, color2, tol) ==
  IF color1 = color2 THEN TRUE
  ELSE IF Alpha(color1) < ALPHA_MIN /\ Alpha(color2) < ALPHA_MIN THEN TRUE
  ELSE /\ Abs(Red(color1) - Red(color2)) <= tol
       /\ Abs(Green(color1) - Green(color2)) <= tol
       /\ Abs(Blue(color1) - Blue(color2)) <= tol

\* A mutant of isColorSimilar: the alpha comparison is flipped (< for >).
isColorSimilarAlphaFlipped(color1, color2, tol) ==
  IF color1 = color2 THEN TRUE
  ELSE IF Alpha(color1) < ALPHA_MIN /\ Alpha(color2) < ALPHA_MIN THEN TRUE
  ELSE IF Abs(Alpha(color1) - Alpha(color2)) < tol THEN FALSE
  ELSE /\ Abs(Red(color1) - Red(color2)) <= tol
       /\ Abs(Green(color1) - Green(color2)) <= tol
       /\ Abs(Blue(color1) - Blue(color2)) <= tol

isColorSimilar(color1, color2, tol) ==
  IF color1 = color2 THEN TRUE
  ELSE IF Alpha(color1) < ALPHA_MIN /\ Alpha(color2) < ALPHA_MIN THEN TRUE
  ELSE IF Abs(Alpha(color1) - Alpha(color2)) > tol THEN FALSE
  ELSE /\ Abs(Red(color1) - Red(color2)) <= tol
       /\ Abs(Green(color1) - Green(color2)) <= tol
       /\ Abs(Blue(color1) - Blue(color2)) <= tol

\* ------------------------------------------------------------------ doubles

\* The number whose binary digits are bits[1..n], most significant first.
RECURSIVE BitsVal(_, _)
BitsVal(bits, n) ==
  IF n = 0 THEN 0 ELSE 2 * BitsVal(bits, n - 1) + bits[n]

BitsToInt(bits) == BitsVal(bits, Len(bits))

RECURSIVE IntToBits(_)
IntToBits(n) ==
  IF n = 0 THEN << >> ELSE Append(IntToBits(n \div 2), n % 2)

\* The n low binary digits of q, most significant first.
LowBits(q, n) == [i \in 1..n |-> (q \div (2 ^ (n - i))) % 2]

\* bits without its leading zeros.
StripZeros(bits) ==
  IF \A i \in DOMAIN bits : bits[i] = 0 THEN << >>
  ELSE SubSeq(bits,
              CHOOSE i \in DOMAIN bits :
                bits[i] = 1 /\ \A j \in 1..(i - 1) : bits[j] = 0,
              Len(bits))

\* bits + 1: the last 0 becomes 1 and the 1s after it become 0.
BitsInc(bits) ==
  IF \A i \in DOMAIN bits : bits[i] = 1
  THEN <<1>> \o [i \in DOMAIN bits |-> 0]
  ELSE LET last == CHOOSE i \in DOMAIN bits :
                     bits[i] = 0 /\ \A j \in (i + 1)..Len(bits) : bits[j] = 1
       IN [i \in DOMAIN bits |->
             IF i < last THEN bits[i] ELSE IF i = last THEN 1 ELSE 0]

\* Round an exact value bits * 2^e (plus a non-zero tail below the last bit when
\* `sticky`) to DBL_BITS significant bits, ties to even.
DblRound(bits, e, sticky) ==
  IF Len(bits) <= DBL_BITS THEN [m |-> bits, e |-> e]
  ELSE LET keep == SubSeq(bits, 1, DBL_BITS)
           st   == sticky \/ \E i \in (DBL_BITS + 2)..Len(bits) : bits[i] = 1
           up   == bits[DBL_BITS + 1] = 1 /\ (st \/ keep[DBL_BITS] = 1)
       IN [m |-> IF up THEN BitsInc(keep) ELSE keep,
           e |-> e + (Len(bits) - DBL_BITS)]

\* One step of the long division by t from the remainder r: the next CHUNK
\* binary digits of the quotient, as a number, and the new remainder.
DivBits(r, t) ==
  [q |-> (r * (2 ^ CHUNK)) \div t, r |-> (r * (2 ^ CHUNK)) % t]

\* The double p / t, for integers p >= 0 and 0 < t < 2^CHUNK: the integer part
\* and five steps of the long division give at least DBL_BITS + 1 significant
\* digits, and the last remainder tells whether the quotient goes on.
DblDiv(p, t) ==
  LET s1 == DivBits(p % t, t)
      s2 == DivBits(s1.r, t)
      s3 == DivBits(s2.r, t)
      s4 == DivBits(s3.r, t)
      s5 == DivBits(s4.r, t)
      bits == IntToBits(p \div t) \o LowBits(s1.q, CHUNK) \o LowBits(s2.q, CHUNK)
                \o LowBits(s3.q, CHUNK) \o LowBits(s4.q, CHUNK) \o LowBits(s5.q, CHUNK)
  IN DblRound(StripZeros(bits), 0 - 5 * CHUNK, s5.r # 0)

\* bits * n, exactly, for a significand of at most 4 * CHUNK digits and
\* 0 <= n < 2^CHUNK: the significand is cut in four limbs of CHUNK digits,
\* multiplied from the lowest with the carries passed up.
MulBits(bits, n) ==
  LET len == 4 * CHUNK
      pad == [i \in 1..len |->
                IF i <= len - Len(bits) THEN 0 ELSE bits[i - (len - Len(bits))]]
      Limb(j) == BitsVal(SubSeq(pad, CHUNK * (j - 1) + 1, CHUNK * j), CHUNK)
      v4 == Limb(4) * n
      v3 == Limb(3) * n + v4 \div (2 ^ CHUNK)
      v2 == Limb(2) * n + v3 \div (2 ^ CHUNK)
      v1 == Limb(1) * n + v2 \div (2 ^ CHUNK)
  IN StripZeros(IntToBits(v1) \o LowBits(v2 % (2 ^ CHUNK), CHUNK)
                  \o LowBits(v3 % (2 ^ CHUNK), CHUNK)
                  \o LowBits(v4 % (2 ^ CHUNK), CHUNK))

\* The double d * n, for an integer 0 <= n < 2^CHUNK.
DblMulInt(d, n) == DblRound(MulBits(d.m, n), d.e, FALSE)

\* Math.floor of a double d >= 0.
DblFloor(d) ==
  IF d.e >= 0 THEN BitsToInt(d.m) * (2 ^ d.e)
  ELSE IF Len(d.m) + d.e <= 0 THEN 0
  ELSE BitsToInt(SubSeq(d.m, 1, Len(d.m) + d.e))

\* The double 1.
DblOne == [m |-> <<1>>, e |-> 0]

\* a < b, for doubles a, b > 0: by the position of the leading bit, then by the
\* significands bit by bit.
DblLess(a, b) ==
  LET Bit(d, i) == IF i <= Len(d.m) THEN d.m[i] ELSE 0
      TopA == Len(a.m) + a.e
      TopB == Len(b.m) + b.e
      n == IF Len(a.m) > Len(b.m) THEN Len(a.m) ELSE Len(b.m)
  IN IF TopA # TopB THEN TopA < TopB
     ELSE \E i \in 1..n : /\ Bit(a, i) < Bit(b, i)
                           /\ \A j \in 1..(i - 1) : Bit(a, j) = Bit(b, j)

\* Math.min of two doubles.
DblMin(a, b) == IF DblLess(b, a) THEN b ELSE a

\* Math.min(maxWidth / width, maxHeight / height) without the cap at 1.
ScaleNoCap(srcW, srcH, maxWidth, maxHeight) ==
  DblMin(DblDiv(maxWidth, srcW), DblDiv(maxHeight, srcH))

\* const scale = Math.min(options.maxWidth / img.width, options.maxHeight / img.height, 1)
Scale(srcW, srcH, maxWidth, maxHeight) ==
  DblMin(DblMin(DblDiv(maxWidth, srcW), DblDiv(maxHeight, srcH)), DblOne)

\* Math.floor(img.width * scale * options.superSample): the products are
\* rounded to a double one after the other, left to right.
TargetDim(src, scale, superSample) ==
  DblFloor(DblMulInt(DblMulInt(scale, src), superSample))

\* Math.floor((processed / total) * 100)
Percent(processed, total) ==
  DblFloor(DblMulInt(DblDiv(processed, total), 100))

\* ------------------------------------------------------------- input rasters

\* Colours of the exhaustive inputs: two near-transparent colours of different
\* RGB, a colour of alpha 2 with the RGB of the second, an opaque red, and a
\* red one green step away.
T0 == Pack(0, 0, 0, 0)

T1 == Pack(1, 9, 9, 9)

G2 == Pack(2, 9, 9, 9)

RED == Pack(255, 0, 0, 255)

RED1 == Pack(255, 0, 1, 255)

GREEN == Pack(255, 0, 255, 0)

BLUE == Pack(255, 255, 0, 0)

BLACK == Pack(255, 0, 0, 0)

Palette == {T0, T1, G2, RED, RED1}

QuadPalette == {RED, RED1, GREEN, BLUE, BLACK}

TallPalette == {T0, RED, RED1}

Tolerances == {0, 1, 255}

\* Every raster of at most MaxCells pixels.
SmallBuffers ==
  UNION { { [w |-> w, h |-> h, px |-> p] : p \in [1..(w * h) -> Palette] } :
          <<w, h>> \in { s \in (1..MaxCells) \X (1..MaxCells) :
                         s[1] * s[2] <= MaxCells } }

\* Two horizontal bands of width 2, each of one repeated row over a
\* transparent colour, an opaque red and the red one green step away.
BandBuffers ==
  { [w |-> 2, h |-> h1 + h2,
     px |-> [i \in 1..(2 * (h1 + h2)) |->
               IF (i - 1) \div 2 < h1 THEN r1[((i - 1) % 2) + 1]
                                      ELSE r2[((i - 1) % 2) + 1]]] :
    <<r1, r2, h1, h2>> \in [1..2 -> TallPalette] \X [1..2 -> TallPalette]
                           \X (1..MaxBandH) \X (1..MaxBandH) }

\* A 2 x 2 source drawn at superSample 2: each source pixel is a 2 x 2 block.
QuadBuffers ==
  { [w |-> 2 * SUPER_SAMPLE, h |-> 2 * SUPER_SAMPLE,
     px |-> [i \in 1..(4 * SUPER_SAMPLE * SUPER_SAMPLE) |->
               src[2 * (((i - 1) \div (2 * SUPER_SAMPLE)) \div SUPER_SAMPLE)
                   + (((i - 1) % (2 * SUPER_SAMPLE)) \div SUPER_SAMPLE) + 1]]] :
    src \in [1..4 -> QuadPalette] }

\* One column spanning two or three batches, of one colour above row s and
\* another from row s on.
TallBuffers ==
  { [w |-> 1, h |-> h, px |-> [i \in 1..h |-> IF i - 1 < s THEN c1 ELSE c2]] :
    <<h, s, c1, c2>> \in ((2 * BATCH_ROWS)..(2 * BATCH_ROWS + MaxExtraRows))
                         \X ((BATCH_ROWS - MaxSplitSpan)..(BATCH_ROWS + MaxSplitSpan))
                         \X TallPalette \X TallPalette }

Buffers == SmallBuffers \cup BandBuffers \cup QuadBuffers \cup TallBuffers

\* -------------------------------------------------------------------- state

VARIABLES
  pc,          \* each invocation's position in traceImageToSVG
  running,     \* the invocation that holds the thread (0: none, all suspended)
  data,        \* the PixelBuffer the rasterizer yields for imgUrl: [w, h, px]
  tolerance,   \* options.tolerance
  visited,     \* the visited mask, << >> until it is allocated
  processed,   \* the counter `processed`
  colorPaths,  \* the insertion-ordered Map: a sequence of [color, d]
  batchY,      \* the batch loop's variable
  x,           \* the scan position's column
  y,           \* the scan position's row
  rects,       \* history: the committed RegionRects, in commit order
  skipped,     \* history: the pixel indices skipped as transparent
  progress,    \* history: the values passed to onProgress, in call order
  yields,      \* history: the number of batch-boundary suspensions
  loads,       \* history: the number of times img.src was set
  result,      \* the returned promise: pending, rejected or resolved
  cmp,         \* a comparator call: its arguments and its result
  batchRows,   \* the rows of a batch: BATCH_ROWS in the program
  dims,        \* a target-size computation: its arguments and its result
  retry,       \* a call of fetchWithRetry: its frame, its calls of fn, its waits
  app          \* the App component: its state and the handler in flight

vars == <<pc, running, data, tolerance, visited, processed, colorPaths, batchY,
          x, y, rects, skipped, progress, yields, loads, result, cmp, batchRows, dims, retry, app>>

traceVars == <<pc, running, data, tolerance, visited, processed, colorPaths,
               batchY, x, y, rects, skipped, progress, yields, loads, result,
               batchRows>>

Invocations == DOMAIN pc

NoCall == [c1 |-> 0, c2 |-> 0, tol |-> 0, called |-> FALSE, res |-> FALSE]

Pending == [status |-> "pending", error |-> "", doc |-> << >>]

NoDims == [srcW |-> 1, srcH |-> 1, maxWidth |-> 1, maxHeight |-> 1, superSample |-> 1,
           called |-> FALSE, targetWidth |-> 0, targetHeight |-> 0]

\* No call of fetchWithRetry has been made.
NoRetry == [pc |-> "idle", retries |-> 0, delay |-> 0, retries0 |-> 0, delay0 |-> 0,
            calls |-> 0, inflight |-> 0, log |-> << >>,
            waits |-> << >>, status |-> "pending", from |-> 0]

\* useState's initial values: no source image, the dashboard, nothing in
\* progress; and no handler in flight.
NoApp == [sourceImage |-> FALSE, activeTool |-> "DASHBOARD",
          isProcessing |-> FALSE, progress |-> 0, error |-> "null",
          resultUrl |-> FALSE, resultType |-> "png",
          handler |-> "none", at |-> "idle", upload |-> "idle"]

\* One invocation, not yet called, of each input raster and tolerance.
Init ==
  /\ pc = [t \in {1} |-> "idle"]
  /\ running = 0
  /\ data \in [{1} -> Buffers]
  /\ tolerance \in [{1} -> Tolerances]
  /\ visited = [t \in {1} |-> << >>]
  /\ processed = [t \in {1} |-> 0]
  /\ colorPaths = [t \in {1} |-> << >>]
  /\ batchY = [t \in {1} |-> 0]
  /\ x = [t \in {1} |-> 0]
  /\ y = [t \in {1} |-> 0]
  /\ rects = [t \in {1} |-> << >>]
  /\ skipped = [t \in {1} |-> {}]
  /\ progress = [t \in {1} |-> << >>]
  /\ yields = [t \in {1} |-> 0]
  /\ loads = [t \in {1} |-> 0]
  /\ result = [t \in {1} |-> Pending]
  /\ cmp = NoCall
  /\ retry = NoRetry
  /\ app = NoApp
  /\ batchRows = [t \in {1} |-> BATCH_ROWS]
  /\ dims = NoDims

targetWidth(t) == data[t].w

targetHeight(t) == data[t].h

total(t) == targetWidth(t) * targetHeight(t)

endY(t) == Min(batchY[t] + batchRows[t], targetHeight(t))

\* ------------------------------------------------------------- region grower

\* A mutant of IsTransparent: only alpha 0 is skipped.
IsTransparentZeroOnly(color) == Alpha(color) < 1

\* ((color >> 24) & 0xff) < 2
IsTransparent(color) == Alpha(color) < ALPHA_MIN

\* The greedy horizontal loop without its !visited[idx + rectW] test.
RECURSIVE GrowWidthNoVisited(_, _, _, _, _)
GrowWidthNoVisited(buf, px, py, tol, rectW) ==
  LET idx == py * buf.w + px
  IN IF /\ px + rectW < buf.w
        /\ isColorSimilar(buf.px[idx + 1], buf.px[idx + rectW + 1], tol)
     THEN GrowWidthNoVisited(buf, px, py, tol, rectW + 1)
     ELSE rectW

\* A mutant of RectWidth: the width grows over visited pixels.
RectWidthNoVisited(buf, vis, px, py, tol) == GrowWidthNoVisited(buf, px, py, tol, 0)

\* The greedy horizontal loop, from the width rectW reached so far.
RECURSIVE GrowWidth(_, _, _, _, _, _)
GrowWidth(buf, vis, px, py, tol, rectW) ==
  LET idx == py * buf.w + px
  IN IF /\ px + rectW < buf.w
        /\ vis[idx + rectW + 1] = 0
        /\ isColorSimilar(buf.px[idx + 1], buf.px[idx + rectW + 1], tol)
     THEN GrowWidth(buf, vis, px, py, tol, rectW + 1)
     ELSE rectW

\* let rectW = 0; while (...) rectW++
RectWidth(buf, vis, px, py, tol) == GrowWidth(buf, vis, px, py, tol, 0)

\* A mutant of RowQualifies: only the first cell of the candidate row is tested.
RowQualifiesFirstOnly(buf, vis, px, row, rectW, color, tol) ==
  LET checkIdx == row * buf.w + px
  IN ~(vis[checkIdx + 1] = 1 \/ ~isColorSimilar(color, buf.px[checkIdx + 1], tol))

\* The inner for loop of the vertical growth: no cell of the candidate row in
\* columns [px, px + rectW) is visited or dissimilar to the anchor's colour.
RowQualifies(buf, vis, px, row, rectW, color, tol) ==
  \A dw \in 0..(rectW - 1) :
    LET checkIdx == row * buf.w + (px + dw)
    IN ~(vis[checkIdx + 1] = 1 \/ ~isColorSimilar(color, buf.px[checkIdx + 1], tol))

\* The greedy vertical loop, from the height rectH reached so far.
RECURSIVE GrowHeight(_, _, _, _, _, _, _)
GrowHeight(buf, vis, px, py, rectW, tol, rectH) ==
  IF /\ py + rectH < buf.h
     /\ RowQualifies(buf, vis, px, py + rectH, rectW, buf.px[py * buf.w + px + 1], tol)
  THEN GrowHeight(buf, vis, px, py, rectW, tol, rectH + 1)
  ELSE rectH

\* A mutant of RectHeight: the height stops one row short of the buffer's edge.
RectHeightOffByOne(buf, vis, px, py, rectW, tol) ==
  Min(GrowHeight(buf, vis, px, py, rectW, tol, 1), IF py + 2 < buf.h THEN buf.h - py - 1 ELSE 1)

\* let rectH = 1; while (canExpand && y + rectH < targetHeight) ...
RectHeight(buf, vis, px, py, rectW, tol) ==
  GrowHeight(buf, vis, px, py, rectW, tol, 1)

\* The pixel indices of the rectangle (px, py, rectW, rectH) in a raster w wide.
RectCells(w, px, py, rectW, rectH) ==
  { (py + vY) * w + (px + vX) : <<vX, vY>> \in (0..(rectW - 1)) \X (0..(rectH - 1)) }

\* Commit and Mark: visited[vIdx] = 1 for every cell of the rectangle.
MarkRect(vis, w, px, py, rectW, rectH) ==
  [i \in DOMAIN vis |->
     IF (i - 1) \in RectCells(w, px, py, rectW, rectH) THEN 1 ELSE vis[i]]

\* The number of processed++ the commit loop performs: the cells it finds unvisited.
NewlyMarked(vis, w, px, py, rectW, rectH) ==
  Cardinality({ i \in RectCells(w, px, py, rectW, rectH) : vis[i + 1] = 0 })

\* A mutant of PathCommand: the sides grow by b, not by 2b.
PathCommandHalfBleed(px, py, rectW, rectH) ==
  [mx |-> 10 * px - BLEED10, my |-> 10 * py - BLEED10,
   h |-> 10 * rectW + BLEED10, v |-> 10 * rectH + BLEED10,
   back |-> 0 - (10 * rectW + BLEED10)]

\* `M${x - b},${y - b}h${rectW + b * 2}v${rectH + b * 2}h-${rectW + b * 2}z`,
\* its numbers in tenths.
PathCommand(px, py, rectW, rectH) ==
  [mx |-> 10 * px - BLEED10, my |-> 10 * py - BLEED10,
   h |-> 10 * rectW + 2 * BLEED10, v |-> 10 * rectH + 2 * BLEED10,
   back |-> 0 - (10 * rectW + 2 * BLEED10)]

\* colorPaths.set(color, [cmd]) on every rect: an entry used again is overwritten.
PutPathOverwrite(paths, color, cmd) ==
  IF \E i \in DOMAIN paths : paths[i].color = color
  THEN [i \in DOMAIN paths |->
          IF paths[i].color = color
          THEN [paths[i] EXCEPT !.d = <<cmd>>] ELSE paths[i]]
  ELSE Append(paths, [color |-> color, d |-> <<cmd>>])

\* if (!colorPaths.has(color)) colorPaths.set(color, []); colorPaths.get(color).push(cmd)
PutPath(paths, color, cmd) ==
  IF \E i \in DOMAIN paths : paths[i].color = color
  THEN [i \in DOMAIN paths |->
          IF paths[i].color = color
          THEN [paths[i] EXCEPT !.d = Append(@, cmd)] ELSE paths[i]]
  ELSE Append(paths, [color |-> color, d |-> <<cmd>>])

\* --------------------------------------------------------------- serializer

\* (a / 255).toFixed(4), in ten-thousandths: a / 255 is never half-way between
\* two four-digit decimals, so the nearest one is unique.
AlphaFixed4(a) == (2 * a * 10000 + 255) \div (2 * 255)

\* One <path> element: fill and stroke rgba(r,g,b,a), and the joined commands.
Shape(entry) ==
  [r |-> Red(entry.color), g |-> Green(entry.color), b |-> Blue(entry.color),
   a |-> AlphaFixed4(Alpha(entry.color)), d |-> entry.d]

\* colorPaths a plain object instead of a Map: integer keys are visited in
\* ascending order of the unsigned key, not in insertion order.
PathElementsByKey(paths) ==
  LET Before(c1, c2) == \/ Alpha(c1) < Alpha(c2)
                        \/ Alpha(c1) = Alpha(c2) /\ c1 <= c2
      Rank(e) == Cardinality({k \in DOMAIN paths : Before(paths[k].color, e.color)})
  IN [i \in DOMAIN paths |->
        Shape(paths[CHOOSE k \in DOMAIN paths : Rank(paths[k]) = i])]

\* colorPaths.forEach(...): one element per entry, in insertion order.
PathElements(paths) == [i \in DOMAIN paths |-> Shape(paths[i])]

\* ------------------------------------------------------------------ actions

\* traceImageToSVG is called: the Image is created, img.src is set, and the
\* invocation suspends on the load promise.
Start(t) ==
  /\ pc[t] = "idle"
  /\ running = 0
  /\ loads' = [loads EXCEPT ![t] = @ + 1]
  /\ pc' = [pc EXCEPT ![t] = "awaitLoad"]
  /\ UNCHANGED <<running, data, tolerance, visited, processed, colorPaths, batchY,
                 x, y, rects, skipped, progress, yields, result, cmp, batchRows, dims, retry, app>>

\* A mutant of LoadReject: a failed load is tried again.
LoadRejectRetry(t) ==
  /\ pc[t] = "awaitLoad"
  /\ running = 0
  /\ pc' = [pc EXCEPT ![t] = "idle"]
  /\ UNCHANGED <<running, data, tolerance, visited, processed, colorPaths, batchY,
                 x, y, rects, skipped, progress, yields, loads, result, cmp, batchRows, dims, retry, app>>

\* img.onerror: the load promise rejects and the invocation fails.
LoadReject(t) ==
  /\ pc[t] = "awaitLoad"
  /\ running = 0
  /\ pc' = [pc EXCEPT ![t] = "failed"]
  /\ result' = [result EXCEPT ![t] = [status |-> "rejected", error |-> "LoadError",
                                      doc |-> << >>]]
  /\ UNCHANGED <<running, data, tolerance, visited, processed, colorPaths, batchY,
                 x, y, rects, skipped, progress, yields, loads, cmp, batchRows, dims, retry, app>>

\* img.onload: the invocation resumes at the canvas set-up.
LoadResolve(t) ==
  /\ pc[t] = "awaitLoad"
  /\ running = 0
  /\ pc' = [pc EXCEPT ![t] = "setup"]
  /\ running' = t
  /\ UNCHANGED <<data, tolerance, visited, processed, colorPaths, batchY,
                 x, y, rects, skipped, progress, yields, loads, result, cmp, batchRows, dims, retry, app>>

\* canvas.getContext returns null: throw new Error("Canvas initialization failed").
ContextFail(t) ==
  /\ pc[t] = "setup"
  /\ running = t
  /\ pc' = [pc EXCEPT ![t] = "failed"]
  /\ running' = 0
  /\ result' = [result EXCEPT ![t] = [status |-> "rejected", error |-> "RuntimeError",
                                      doc |-> << >>]]
  /\ UNCHANGED <<data, tolerance, visited, processed, colorPaths, batchY,
                 x, y, rects, skipped, progress, yields, loads, cmp, batchRows, dims, retry, app>>

\* Entering the batch loop at batchY = by: the first batch's scan starts, or, with
\* no row left, control passes to the serializer.
EnterBatch(t, by) ==
  /\ batchY' = [batchY EXCEPT ![t] = by]
  /\ IF by < targetHeight(t)
     THEN /\ pc' = [pc EXCEPT ![t] = "scan"]
          /\ y' = [y EXCEPT ![t] = by]
          /\ x' = [x EXCEPT ![t] = 0]
     ELSE /\ pc' = [pc EXCEPT ![t] = "serialize"]
          /\ UNCHANGED <<x, y>>

\* The context is acquired: the image is drawn, the pixel data read, the visited
\* mask allocated, colorPaths and processed initialised, and the batch loop entered.
Setup(t) ==
  /\ pc[t] = "setup"
  /\ running = t
  /\ visited' = [visited EXCEPT ![t] = [i \in 1..total(t) |-> 0]]
  /\ processed' = [processed EXCEPT ![t] = 0]
  /\ colorPaths' = [colorPaths EXCEPT ![t] = << >>]
  /\ EnterBatch(t, 0)
  /\ UNCHANGED <<running, data, tolerance, rects, skipped, progress, yields,
                 loads, result, cmp, batchRows, dims, retry, app>>

\* A mutant of Advance: the x loop runs while x < targetWidth - 1, one column
\* short.
AdvanceSkipLast(t) ==
  IF x[t] + 1 < targetWidth(t) - 1
  THEN /\ x' = [x EXCEPT ![t] = @ + 1]
       /\ UNCHANGED <<y, pc>>
  ELSE IF y[t] + 1 < endY(t)
  THEN /\ x' = [x EXCEPT ![t] = 0]
       /\ y' = [y EXCEPT ![t] = @ + 1]
       /\ UNCHANGED pc
  ELSE /\ x' = [x EXCEPT ![t] = 0]
       /\ y' = [y EXCEPT ![t] = @ + 1]
       /\ pc' = [pc EXCEPT ![t] = "report"]

\* After the body of the x loop at (x, y): x++, then y++ at the row's end, then
\* the end of the batch's rows.
Advance(t) ==
  IF x[t] + 1 < targetWidth(t)
  THEN /\ x' = [x EXCEPT ![t] = @ + 1]
       /\ UNCHANGED <<y, pc>>
  ELSE IF y[t] + 1 < endY(t)
  THEN /\ x' = [x EXCEPT ![t] = 0]
       /\ y' = [y EXCEPT ![t] = @ + 1]
       /\ UNCHANGED pc
  ELSE /\ x' = [x EXCEPT ![t] = 0]
       /\ y' = [y EXCEPT ![t] = @ + 1]
       /\ pc' = [pc EXCEPT ![t] = "report"]

\* A mutant of ScanTransparent: `processed` is a module-level counter shared by
\* every invocation instead of a local of the call.
ScanTransparentShared(t) ==
  LET idx == y[t] * targetWidth(t) + x[t] IN
  /\ pc[t] = "scan"
  /\ running = t
  /\ visited[t][idx + 1] = 0
  /\ IsTransparent(data[t].px[idx + 1])
  /\ visited' = [visited EXCEPT ![t][idx + 1] = 1]
  /\ processed' = [u \in DOMAIN processed |-> processed[u] + 1]
  /\ skipped' = [skipped EXCEPT ![t] = @ \cup {idx}]
  /\ Advance(t)
  /\ UNCHANGED <<running, data, tolerance, colorPaths, batchY, rects,
                 progress, yields, loads, result, cmp, batchRows, dims, retry, app>>

\* A mutant of ScanTransparent: the skipped pixel is marked but not counted.
ScanTransparentNoCount(t) ==
  LET idx == y[t] * targetWidth(t) + x[t]
  IN /\ pc[t] = "scan"
     /\ running = t
     /\ visited[t][idx + 1] = 0
     /\ IsTransparent(data[t].px[idx + 1])
     /\ visited' = [visited EXCEPT ![t][idx + 1] = 1]
     /\ skipped' = [skipped EXCEPT ![t] = @ \cup {idx}]
     /\ Advance(t)
     /\ UNCHANGED <<running, data, tolerance, processed, colorPaths, batchY, rects,
                    progress, yields, loads, result, cmp, batchRows, dims, retry, app>>

\* if (visited[idx]) continue
ScanVisited(t) ==
  /\ pc[t] = "scan"
  /\ running = t
  /\ visited[t][y[t] * targetWidth(t) + x[t] + 1] = 1
  /\ Advance(t)
  /\ UNCHANGED <<running, data, tolerance, visited, processed, colorPaths, batchY,
                 rects, skipped, progress, yields, loads, result, cmp, batchRows, dims, retry, app>>

\* The transparent skip: visited[idx] = 1; processed++; continue
ScanTransparent(t) ==
  LET idx == y[t] * targetWidth(t) + x[t]
  IN /\ pc[t] = "scan"
     /\ running = t
     /\ visited[t][idx + 1] = 0
     /\ IsTransparent(data[t].px[idx + 1])
     /\ visited' = [visited EXCEPT ![t][idx + 1] = 1]
     /\ processed' = [processed EXCEPT ![t] = @ + 1]
     /\ skipped' = [skipped EXCEPT ![t] = @ \cup {idx}]
     /\ Advance(t)
     /\ UNCHANGED <<running, data, tolerance, colorPaths, batchY, rects,
                    progress, yields, loads, result, cmp, batchRows, dims, retry, app>>

\* A mutant of ScanGrow: the tolerance is read as options.tolerance || 1, so
\* that a tolerance of 0 grows rects with tolerance 1.
ScanGrowFalsyTolerance(t) ==
  LET idx   == y[t] * targetWidth(t) + x[t]
      color == data[t].px[idx + 1]
      tol   == IF tolerance[t] = 0 THEN 1 ELSE tolerance[t]
      rectW == RectWidth(data[t], visited[t], x[t], y[t], tol)
      rectH == RectHeight(data[t], visited[t], x[t], y[t], rectW, tol)
  IN /\ pc[t] = "scan"
     /\ running = t
     /\ visited[t][idx + 1] = 0
     /\ ~IsTransparent(color)
     /\ visited' = [visited EXCEPT
                      ![t] = MarkRect(@, targetWidth(t), x[t], y[t], rectW, rectH)]
     /\ processed' = [processed EXCEPT
                        ![t] = @ + NewlyMarked(visited[t], targetWidth(t),
                                               x[t], y[t], rectW, rectH)]
     /\ rects' = [rects EXCEPT
                    ![t] = Append(@, [x |-> x[t], y |-> y[t], w |-> rectW,
                                      h |-> rectH, colorKey |-> color])]
     /\ colorPaths' = [colorPaths EXCEPT
                         ![t] = PutPath(@, color, PathCommand(x[t], y[t], rectW, rectH))]
     /\ Advance(t)
     /\ UNCHANGED <<running, data, tolerance, batchY, skipped, progress, yields,
                    loads, result, cmp, batchRows, dims, retry, app>>

\* An anchor: the rectangle is grown in width, then in height, its cells are
\* marked and counted, and its bled command is appended to the anchor colour's
\* path group.
ScanGrow(t) ==
  LET idx   == y[t] * targetWidth(t) + x[t]
      color == data[t].px[idx + 1]
      rectW == RectWidth(data[t], visited[t], x[t], y[t], tolerance[t])
      rectH == RectHeight(data[t], visited[t], x[t], y[t], rectW, tolerance[t])
  IN /\ pc[t] = "scan"
     /\ running = t
     /\ visited[t][idx + 1] = 0
     /\ ~IsTransparent(color)
     /\ visited' = [visited EXCEPT
                      ![t] = MarkRect(@, targetWidth(t), x[t], y[t], rectW, rectH)]
     /\ processed' = [processed EXCEPT
                        ![t] = @ + NewlyMarked(visited[t], targetWidth(t),
                                               x[t], y[t], rectW, rectH)]
     /\ rects' = [rects EXCEPT
                    ![t] = Append(@, [x |-> x[t], y |-> y[t], w |-> rectW,
                                      h |-> rectH, colorKey |-> color])]
     /\ colorPaths' = [colorPaths EXCEPT
                         ![t] = PutPath(@, color, PathCommand(x[t], y[t], rectW, rectH))]
     /\ Advance(t)
     /\ UNCHANGED <<running, data, tolerance, batchY, skipped, progress, yields,
                    loads, result, cmp, batchRows, dims, retry, app>>

\* The end of a batch: onProgress(Math.floor((processed / total) * 100)), then
\* the invocation suspends on setTimeout(r, 0).
Report(t) ==
  /\ pc[t] = "report"
  /\ running = t
  /\ progress' = [progress EXCEPT ![t] = Append(@, Percent(processed[t], total(t)))]
  /\ yields' = [yields EXCEPT ![t] = @ + 1]
  /\ pc' = [pc EXCEPT ![t] = "yield"]
  /\ running' = 0
  /\ UNCHANGED <<data, tolerance, visited, processed, colorPaths, batchY, x, y,
                 rects, skipped, loads, result, cmp, batchRows, dims, retry, app>>

\* A mutant of Resume: the promise of line 171 is never resolved (its executor
\* does not pass r to setTimeout), so the invocation stays suspended.
ResumeNever(t) ==
  /\ pc[t] = "yield"
  /\ running = 0
  /\ FALSE
  /\ UNCHANGED vars

\* A mutant of Resume: colorPaths is emptied at the start of every batch but
\* the first.
ResumeFreshPaths(t) ==
  /\ pc[t] = "yield"
  /\ running = 0
  /\ running' = t
  /\ colorPaths' = [colorPaths EXCEPT
                      ![t] = IF batchY[t] + batchRows[t] < targetHeight(t)
                             THEN << >> ELSE @]
  /\ EnterBatch(t, batchY[t] + batchRows[t])
  /\ UNCHANGED <<data, tolerance, visited, processed, rects, skipped,
                 progress, yields, loads, result, cmp, batchRows, dims, retry, app>>

\* A mutant of Resume: the visited mask is allocated inside the batch loop, a
\* fresh one for every batch but the first.
ResumeFreshMask(t) ==
  /\ pc[t] = "yield"
  /\ running = 0
  /\ running' = t
  /\ visited' = [visited EXCEPT ![t] = [i \in DOMAIN @ |-> 0]]
  /\ EnterBatch(t, batchY[t] + batchRows[t])
  /\ UNCHANGED <<data, tolerance, processed, colorPaths, rects, skipped,
                 progress, yields, loads, result, cmp, batchRows, dims, retry, app>>

\* The timer fires: batchY += BATCH_ROWS (batchRows is BATCH_ROWS in the program)
\* and the loop condition is tested.
Resume(t) ==
  /\ pc[t] = "yield"
  /\ running = 0
  /\ running' = t
  /\ EnterBatch(t, batchY[t] + batchRows[t])
  /\ UNCHANGED <<data, tolerance, visited, processed, colorPaths, rects, skipped,
                 progress, yields, loads, result, cmp, batchRows, dims, retry, app>>

\* The serializer: one path element per colorPaths entry, wrapped in the svg
\* root sized targetWidth x targetHeight; the promise resolves with it.
Serialize(t) ==
  /\ pc[t] = "serialize"
  /\ running = t
  /\ result' = [result EXCEPT
                  ![t] = [status |-> "resolved", error |-> "",
                          doc |-> [width |-> targetWidth(t), height |-> targetHeight(t),
                                   paths |-> PathElements(colorPaths[t])]]]
  /\ pc' = [pc EXCEPT ![t] = "done"]
  /\ running' = 0
  /\ UNCHANGED <<data, tolerance, visited, processed, colorPaths, batchY, x, y,
                 rects, skipped, progress, yields, loads, cmp, batchRows, dims, retry, app>>

\* One step of invocation t.
Step(t) ==
  \/ Start(t)
  \/ LoadReject(t)
  \/ LoadResolve(t)
  \/ ContextFail(t)
  \/ Setup(t)
  \/ ScanVisited(t)
  \/ ScanTransparent(t)
  \/ ScanGrow(t)
  \/ Report(t)
  \/ Resume(t)
  \/ Serialize(t)

Next ==
  \/ \E t \in Invocations : Start(t)
  \/ \E t \in Invocations : LoadReject(t)
  \/ \E t \in Invocations : LoadResolve(t)
  \/ \E t \in Invocations : ContextFail(t)
  \/ \E t \in Invocations : Setup(t)
  \/ \E t \in Invocations : ScanVisited(t)
  \/ \E t \in Invocations : ScanTransparent(t)
  \/ \E t \in Invocations : ScanGrow(t)
  \/ \E t \in Invocations : Report(t)
  \/ \E t \in Invocations : Resume(t)
  \/ \E t \in Invocations : Serialize(t)

Spec == Init /\ [][Next]_vars

\* -------------------------------------------------------- concurrent traces

\* Two calls of traceImageToSVG on one thread (1 and 2), interleaved at their
\* suspensions, followed by a call with the input of 1 (3) and a call with the
\* input of 2 (4), each made when every earlier call has settled, so that it
\* runs with no other call in progress.
PairBuffers ==
  { [w |-> 1, h |-> 2 * BATCH_ROWS + MaxExtraRows,
     px |-> [i \in 1..(2 * BATCH_ROWS + MaxExtraRows) |->
               IF i - 1 < s THEN c[1] ELSE c[2]]] :
    <<s, c>> \in {BATCH_ROWS - MaxSplitSpan, BATCH_ROWS + MaxSplitSpan}
                 \X {<<RED, RED1>>, <<T0, RED>>} }
  \cup { [w |-> 2, h |-> 1, px |-> p] : p \in [1..2 -> {T0, RED}] }

PairInputs == [buf : PairBuffers, tol : {0, 1}]

Settled(t) == pc[t] \in {"done", "failed"}

InitPair ==
  /\ pc = [t \in 1..4 |-> "idle"]
  /\ running = 0
  /\ \E a, b \in PairInputs :
       /\ data = [t \in 1..4 |-> IF t \in {1, 3} THEN a.buf ELSE b.buf]
       /\ tolerance = [t \in 1..4 |-> IF t \in {1, 3} THEN a.tol ELSE b.tol]
  /\ visited = [t \in 1..4 |-> << >>]
  /\ processed = [t \in 1..4 |-> 0]
  /\ colorPaths = [t \in 1..4 |-> << >>]
  /\ batchY = [t \in 1..4 |-> 0]
  /\ x = [t \in 1..4 |-> 0]
  /\ y = [t \in 1..4 |-> 0]
  /\ rects = [t \in 1..4 |-> << >>]
  /\ skipped = [t \in 1..4 |-> {}]
  /\ progress = [t \in 1..4 |-> << >>]
  /\ yields = [t \in 1..4 |-> 0]
  /\ loads = [t \in 1..4 |-> 0]
  /\ result = [t \in 1..4 |-> Pending]
  /\ cmp = NoCall
  /\ retry = NoRetry
  /\ app = NoApp
  /\ batchRows = [t \in 1..4 |-> BATCH_ROWS]
  /\ dims = NoDims

NextPair ==
  \/ \E t \in {1, 2} : Step(t)
  \/ Settled(1) /\ Settled(2) /\ Step(3)
  \/ Settled(1) /\ Settled(2) /\ Settled(3) /\ Step(4)

SpecPair == InitPair /\ [][NextPair]_vars

\* ------------------------------------------------------------ batch sizes

\* The same input traced twice, one call after the other: call 1 with batches
\* of BATCH_ROWS rows, call 2 with batches of 1..MaxBatch rows or with the
\* whole height as one batch.
BatchBuffers ==
  {b \in SmallBuffers : \A i \in DOMAIN b.px : b.px[i] \in TallPalette} \cup PairBuffers

InitBatch ==
  /\ pc = [t \in 1..2 |-> "idle"]
  /\ running = 0
  /\ \E buf \in BatchBuffers, tol \in Tolerances :
     \E rows \in (1..MaxBatch) \cup {buf.h} :
       /\ data = [t \in 1..2 |-> buf]
       /\ tolerance = [t \in 1..2 |-> tol]
       /\ batchRows = [t \in 1..2 |-> IF t = 1 THEN BATCH_ROWS ELSE rows]
  /\ visited = [t \in 1..2 |-> << >>]
  /\ processed = [t \in 1..2 |-> 0]
  /\ colorPaths = [t \in 1..2 |-> << >>]
  /\ batchY = [t \in 1..2 |-> 0]
  /\ x = [t \in 1..2 |-> 0]
  /\ y = [t \in 1..2 |-> 0]
  /\ rects = [t \in 1..2 |-> << >>]
  /\ skipped = [t \in 1..2 |-> {}]
  /\ progress = [t \in 1..2 |-> << >>]
  /\ yields = [t \in 1..2 |-> 0]
  /\ loads = [t \in 1..2 |-> 0]
  /\ result = [t \in 1..2 |-> Pending]
  /\ cmp = NoCall
  /\ retry = NoRetry
  /\ app = NoApp
  /\ dims = NoDims

NextBatch ==
  \/ Step(1)
  \/ Settled(1) /\ Step(2)

SpecBatch == InitBatch /\ [][NextBatch]_vars

\* The steps after the context is acquired, but for the call of onProgress.
\* Synchronous code runs to the next suspension, and the host fires every
\* zero-delay timer: a step of this kind that stays possible is eventually
\* taken. Nothing makes the image load settle.
Proceed ==
  \E t \in Invocations :
    \/ ScanVisited(t)
    \/ ScanTransparent(t)
    \/ ScanGrow(t)
    \/ Resume(t)
    \/ Serialize(t)

\* Line 170 is reached with the thread held: the call of onProgress is possible.
AtReport == \E t \in Invocations : pc[t] = "report" /\ running = t

\* The call of onProgress and the suspension after it.
Reports == \E t \in Invocations : Report(t)

\* The inputs of the fair runs: the two- and three-batch columns and every
\* 2 x 2 buffer.
LiveBuffers == PairBuffers \cup {b \in SmallBuffers : b.w = 2 /\ b.h = 2}

InitLive == Init /\ \A t \in Invocations : data[t] \in LiveBuffers

\* Weak fairness of Proceed, and of Reports with its enabling condition written
\* out: Report(t) is possible exactly when AtReport holds of t.
SpecLive ==
  /\ InitLive
  /\ [][Next]_vars
  /\ WF_vars(Proceed)
  /\ ([]<>(~AtReport) \/ []<><<Reports>>_vars)

\* ------------------------------------------------- the comparator on its own

CmpAlphas == (0..(CmpSpan + 1)) \cup {255}

CmpChans == {0, CmpSpan, 255}

CmpTols == (0..CmpSpan) \cup {254, 255}

CmpColors ==
  { Pack(a, b, g, r) : <<a, b, g, r>> \in CmpAlphas \X CmpChans \X CmpChans \X CmpChans }

\* No invocation; one comparator call about to be made.
InitSimilar ==
  /\ pc = << >>
  /\ running = 0
  /\ data = << >>
  /\ tolerance = << >>
  /\ visited = << >>
  /\ processed = << >>
  /\ colorPaths = << >>
  /\ batchY = << >>
  /\ x = << >>
  /\ y = << >>
  /\ rects = << >>
  /\ skipped = << >>
  /\ progress = << >>
  /\ yields = << >>
  /\ loads = << >>
  /\ result = << >>
  /\ batchRows = << >>
  /\ dims = NoDims
  /\ retry = NoRetry
  /\ app = NoApp
  /\ cmp \in [c1 : CmpColors, c2 : CmpColors, tol : CmpTols,
              called : {FALSE}, res : {FALSE}]

\* isColorSimilar(c1, c2, tol) is called and returns.
Compare ==
  /\ ~cmp.called
  /\ cmp' = [cmp EXCEPT !.called = TRUE,
                        !.res = isColorSimilar(cmp.c1, cmp.c2, cmp.tol)]
  /\ UNCHANGED <<traceVars, dims, retry, app>>

NextSimilar == Compare

SpecSimilar == InitSimilar /\ [][NextSimilar]_vars

\* ------------------------------------------------------------- target size

\* The target-size computation on its own: a source size, a box and a
\* superSample factor, then lines 75-77.
SrcDims == (1..MaxSrc) \cup {25, 49}

BoxDims == (1..MaxBox) \cup {7, 4096}

SuperSamples == 1..MaxSuper

InitTarget ==
  /\ pc = << >>
  /\ running = 0
  /\ data = << >>
  /\ tolerance = << >>
  /\ visited = << >>
  /\ processed = << >>
  /\ colorPaths = << >>
  /\ batchY = << >>
  /\ x = << >>
  /\ y = << >>
  /\ rects = << >>
  /\ skipped = << >>
  /\ progress = << >>
  /\ yields = << >>
  /\ loads = << >>
  /\ result = << >>
  /\ batchRows = << >>
  /\ cmp = NoCall
  /\ retry = NoRetry
  /\ app = NoApp
  /\ dims \in [srcW : SrcDims, srcH : SrcDims, maxWidth : BoxDims, maxHeight : BoxDims,
               superSample : SuperSamples, called : {FALSE},
               targetWidth : {0}, targetHeight : {0}]

ComputeTarget ==
  LET scale == Scale(dims.srcW, dims.srcH, dims.maxWidth, dims.maxHeight) IN
  /\ ~dims.called
  /\ dims' = [dims EXCEPT !.called = TRUE,
                          !.targetWidth = TargetDim(dims.srcW, scale, dims.superSample),
                          !.targetHeight = TargetDim(dims.srcH, scale, dims.superSample)]
  /\ UNCHANGED <<traceVars, cmp, retry, app>>

NextTarget == ComputeTarget

SpecTarget == InitTarget /\ [][NextTarget]_vars

\* --------------------------------------------------------- fetchWithRetry

RetryCounts == (0..MaxRetries) \cup {RETRIES}

Delays == (0..MaxDelay) \cup {DELAY}

\* A frame of fetchWithRetry(fn, r, d) is entered: fn() is called and awaited.
Enter(r, d) ==
  [retry EXCEPT !.pc = "calling", !.retries = r, !.delay = d,
                !.calls = @ + 1, !.inflight = @ + 1]

\* A mutant of FnReject: the test is retries < 0, one retry too many.
FnRejectOneMore ==
  /\ retry.pc = "calling"
  /\ IF retry.retries < 0
     THEN retry' = [retry EXCEPT !.pc = "thrown", !.inflight = @ - 1,
                                 !.log = Append(@, "err"),
                                 !.status = "rejected", !.from = retry.calls]
     ELSE retry' = [retry EXCEPT !.pc = "waiting", !.inflight = @ - 1,
                                 !.log = Append(@, "err"),
                                 !.waits = Append(@, retry.delay)]
  /\ UNCHANGED <<traceVars, cmp, dims, app>>

\* The awaited call succeeds: the frame returns its value, and every frame
\* that called it returns the same value.
FnResolve ==
  /\ retry.pc = "calling"
  /\ retry' = [retry EXCEPT !.pc = "returned", !.inflight = @ - 1,
                            !.log = Append(@, "ok"),
                            !.status = "resolved", !.from = retry.calls]
  /\ UNCHANGED <<traceVars, cmp, dims, app>>

\* The awaited call fails: with retries <= 0 the error is thrown on, through
\* every calling frame; otherwise setTimeout(resolve, delay) is set and awaited.
FnReject ==
  /\ retry.pc = "calling"
  /\ IF retry.retries <= 0
     THEN retry' = [retry EXCEPT !.pc = "thrown", !.inflight = @ - 1,
                                 !.log = Append(@, "err"),
                                 !.status = "rejected", !.from = retry.calls]
     ELSE retry' = [retry EXCEPT !.pc = "waiting", !.inflight = @ - 1,
                                 !.log = Append(@, "err"),
                                 !.waits = Append(@, retry.delay)]
  /\ UNCHANGED <<traceVars, cmp, dims, app>>

\* The timer fires: return fetchWithRetry(fn, retries - 1, delay * 2).
RetryTimer ==
  /\ retry.pc = "waiting"
  /\ retry' = Enter(retry.retries - 1, retry.delay * 2)
  /\ UNCHANGED <<traceVars, cmp, dims, app>>

\* fetchWithRetry(fn, r, d) is called, on its own.
Fetch ==
  /\ retry.pc = "idle"
  /\ \E r \in RetryCounts, d \in Delays :
       retry' = [Enter(r, d) EXCEPT !.retries0 = r, !.delay0 = d]
  /\ UNCHANGED <<traceVars, cmp, dims, app>>

\* No invocation of the tracer; no call of fetchWithRetry yet.
InitRetry ==
  /\ pc = << >>
  /\ running = 0
  /\ data = << >>
  /\ tolerance = << >>
  /\ visited = << >>
  /\ processed = << >>
  /\ colorPaths = << >>
  /\ batchY = << >>
  /\ x = << >>
  /\ y = << >>
  /\ rects = << >>
  /\ skipped = << >>
  /\ progress = << >>
  /\ yields = << >>
  /\ loads = << >>
  /\ result = << >>
  /\ batchRows = << >>
  /\ cmp = NoCall
  /\ retry = NoRetry
  /\ app = NoApp
  /\ dims = NoDims

NextRetry ==
  \/ Fetch
  \/ FnResolve
  \/ FnReject
  \/ RetryTimer

SpecRetry == InitRetry /\ [][NextRetry]_vars

\* --------------------------------------------------------------- the App

\* The tools of the side panel.
Tools == {"BG_REMOVER", "UPSCALER", "VECTOR_CONVERTER"}

\* The percentages the tracer passes to its progress callback.
Percents == {0, 50, 100}

\* currentImageUrl = processing.resultUrl || sourceImage?.url || null
currentImageUrl == app.resultUrl \/ app.sourceImage

\* A tool handler may start: the workspace is shown, there is an image, the
\* flag is down; and, as a bound of the model, no tool handler is in flight.
CanStart ==
  /\ app.handler = "none"
  /\ app.sourceImage
  /\ currentImageUrl
  /\ ~app.isProcessing

\* setProcessing(p => ({ ...p, isProcessing: false, progress: 0, error:
\* err.message })) in a handler's catch, which ends the handler.
Caught(message) ==
  [app EXCEPT !.isProcessing = FALSE, !.progress = 0, !.error = message,
              !.handler = "none", !.at = "idle"]

\* setProcessing({ isProcessing: false, progress: 100, error: null, resultUrl,
\* resultType }) at the end of a handler's try.
Finished(type) ==
  [app EXCEPT !.isProcessing = FALSE, !.progress = 100, !.error = "null",
              !.resultUrl = TRUE, !.resultType = type,
              !.handler = "none", !.at = "idle"]

\* onFileUpload with a file: the handler suspends on getImageDimensions.
UploadStart ==
  /\ ~app.sourceImage
  /\ app.upload = "idle"
  /\ app' = [app EXCEPT !.upload = "dims"]
  /\ UNCHANGED <<traceVars, cmp, dims, retry>>

\* The image has loaded: setSourceImage, and the result is cleared.
UploadLoaded ==
  /\ app.upload = "dims"
  /\ app' = [app EXCEPT !.upload = "idle", !.sourceImage = TRUE,
                        !.resultUrl = FALSE, !.error = "null", !.progress = 0,
                        !.resultType = "png"]
  /\ UNCHANGED <<traceVars, cmp, dims, retry>>

\* handleToolSelect(tool)
ToolSelect ==
  /\ app.sourceImage
  /\ \E tool \in Tools :
       app' = [app EXCEPT !.activeTool = tool, !.error = "null", !.progress = 0]
  /\ UNCHANGED <<traceVars, cmp, dims, retry>>

\* handleReset
Reset ==
  /\ app' = [app EXCEPT !.sourceImage = FALSE, !.activeTool = "DASHBOARD",
                        !.isProcessing = FALSE, !.progress = 0, !.error = "null",
                        !.resultUrl = FALSE, !.resultType = "png"]
  /\ UNCHANGED <<traceVars, cmp, dims, retry>>

\* handleDiscardChanges
DiscardChanges ==
  /\ app.sourceImage
  /\ app.resultUrl
  /\ app' = [app EXCEPT !.resultUrl = FALSE, !.error = "null", !.progress = 0,
                        !.resultType = "png"]
  /\ UNCHANGED <<traceVars, cmp, dims, retry>>

\* handleBgRemovalClick, up to await blobUrlToBase64(currentImageUrl)
BgRemovalClick ==
  /\ CanStart
  /\ app.activeTool = "BG_REMOVER"
  /\ app' = [app EXCEPT !.isProcessing = TRUE, !.progress = 20, !.error = "null",
                        !.handler = "bg", !.at = "base64"]
  /\ UNCHANGED <<traceVars, cmp, dims, retry>>

\* handleUpscale, up to await blobUrlToBase64(currentImageUrl)
Upscale ==
  /\ CanStart
  /\ app.activeTool = "UPSCALER"
  /\ app' = [app EXCEPT !.isProcessing = TRUE, !.progress = 10, !.error = "null",
                        !.handler = "upscale", !.at = "base64"]
  /\ UNCHANGED <<traceVars, cmp, dims, retry>>

\* handleVectorize, up to await traceImageToSVG(...)
Vectorize ==
  /\ CanStart
  /\ app.activeTool = "VECTOR_CONVERTER"
  /\ app' = [app EXCEPT !.isProcessing = TRUE, !.progress = 0, !.error = "null",
                        !.handler = "vectorize", !.at = "trace"]
  /\ UNCHANGED <<traceVars, cmp, dims, retry>>

\* blobUrlToBase64 resolves: processAIImage is called, which calls
\* fetchWithRetry(performCall) with the default retries and delay.
Base64Resolve ==
  /\ app.at = "base64"
  /\ retry.pc = "idle"
  /\ app' = [app EXCEPT !.at = "ai"]
  /\ retry' = [Enter(RETRIES, DELAY) EXCEPT !.retries0 = RETRIES, !.delay0 = DELAY]
  /\ UNCHANGED <<traceVars, cmp, dims>>

\* blobUrlToBase64 rejects: the handler's catch.
Base64Reject ==
  /\ app.at = "base64"
  /\ app' = Caught("base64")
  /\ UNCHANGED <<traceVars, cmp, dims, retry>>

\* The response has an image part: processAIImage returns its data URL and the
\* handler suspends on fetch(resultBase64).
AiImage ==
  /\ app.at = "ai"
  /\ retry.pc = "returned"
  /\ app' = [app EXCEPT !.at = "fetch"]
  /\ retry' = NoRetry
  /\ UNCHANGED <<traceVars, cmp, dims>>

\* The response has no image part: processAIImage returns null, the handler's
\* `if (resultBase64)` is skipped and the handler returns.
AiNull ==
  /\ app.at = "ai"
  /\ retry.pc = "returned"
  /\ app' = [app EXCEPT !.handler = "none", !.at = "idle"]
  /\ retry' = NoRetry
  /\ UNCHANGED <<traceVars, cmp, dims>>

\* fetchWithRetry fails after its last retry: the handler's catch.
AiThrow ==
  /\ app.at = "ai"
  /\ retry.pc = "thrown"
  /\ app' = Caught("ai")
  /\ retry' = NoRetry
  /\ UNCHANGED <<traceVars, cmp, dims>>

\* fetch(resultBase64) and response.blob() resolve: the result is published.
ImageFetched ==
  /\ app.at = "fetch"
  /\ app' = Finished("png")
  /\ UNCHANGED <<traceVars, cmp, dims, retry>>

\* fetch(resultBase64) or response.blob() rejects: the handler's catch.
ImageFetchFailed ==
  /\ app.at = "fetch"
  /\ app' = Caught("fetch")
  /\ UNCHANGED <<traceVars, cmp, dims, retry>>

\* The tracer's progress callback: setProcessing(p => ({ ...p, progress })).
TraceProgress ==
  /\ app.at = "trace"
  /\ \E percent \in Percents : app' = [app EXCEPT !.progress = percent]
  /\ UNCHANGED <<traceVars, cmp, dims, retry>>

\* traceImageToSVG resolves with the document: the result is published.
TraceResolve ==
  /\ app.at = "trace"
  /\ app' = Finished("svg")
  /\ UNCHANGED <<traceVars, cmp, dims, retry>>

\* traceImageToSVG rejects: the handler's catch.
TraceReject ==
  /\ app.at = "trace"
  /\ app' = Caught("trace")
  /\ UNCHANGED <<traceVars, cmp, dims, retry>>

NextApp ==
  \/ UploadStart
  \/ UploadLoaded
  \/ ToolSelect
  \/ Reset
  \/ DiscardChanges
  \/ BgRemovalClick
  \/ Upscale
  \/ Vectorize
  \/ Base64Resolve
  \/ Base64Reject
  \/ FnResolve
  \/ FnReject
  \/ RetryTimer
  \/ AiImage
  \/ AiNull
  \/ AiThrow
  \/ ImageFetched
  \/ ImageFetchFailed
  \/ TraceProgress
  \/ TraceResolve
  \/ TraceReject

\* The App as mounted: no tracer invocation, no call of fetchWithRetry.
SpecApp == InitRetry /\ [][NextApp]_vars

\* ------------------------------------------------------------------- claims

\* The grow phase of invocation t has finished.
GrowDone(t) == pc[t] \in {"serialize", "done"}

\* The pixel indices a committed RegionRect covers.
CellsOf(t, r) == RectCells(targetWidth(t), r.x, r.y, r.w, r.h)

\* The committed RegionRects covering pixel idx, plus one if idx was skipped.
CoverCount(t, idx) ==
  Cardinality({ i \in DOMAIN rects[t] : idx \in CellsOf(t, rects[t][i]) })
  + (IF idx \in skipped[t] THEN 1 ELSE 0)

\* C1 (coverage): when the grow phase has finished, every cell of the visited
\* mask is set and every pixel lies in exactly one committed RegionRect or is
\* exactly one skipped-transparent visit of a pixel of alpha < 2: no overlap,
\* no pixel both skipped and covered, no gap.
C1_Coverage ==
  \A t \in Invocations :
    GrowDone(t) =>
      /\ Len(visited[t]) = total(t)
      /\ \A idx \in 0..(total(t) - 1) :
           /\ visited[t][idx + 1] = 1
           /\ CoverCount(t, idx) = 1
           /\ idx \in skipped[t] => Alpha(data[t].px[idx + 1]) < ALPHA_MIN

\* A finished trace with several rectangles and a skipped pixel.
C1_Witness ==
  \E t \in Invocations :
    pc[t] = "done" /\ Len(rects[t]) >= 2 /\ skipped[t] # {}

\* C2 (progress monotonicity): the values passed to onProgress never decrease,
\* and once the grow phase has finished the last value passed is 100.
C2_ProgressMonotone ==
  \A t \in Invocations :
    /\ \A i, j \in DOMAIN progress[t] : i <= j => progress[t][i] <= progress[t][j]
    /\ GrowDone(t) =>
         Len(progress[t]) >= 1 /\ progress[t][Len(progress[t])] = 100

\* A finished trace of three batches whose progress rose strictly.
C2_Witness ==
  \E t \in Invocations :
    /\ pc[t] = "done"
    /\ Len(progress[t]) = 3
    /\ progress[t][1] < progress[t][2]
    /\ progress[t][2] < progress[t][3]

\* The scanner of invocation t stands on an anchor: an unvisited pixel of alpha >= 2.
AtAnchor(t) ==
  /\ pc[t] = "scan"
  /\ visited[t][y[t] * targetWidth(t) + x[t] + 1] = 0
  /\ ~IsTransparent(data[t].px[y[t] * targetWidth(t) + x[t] + 1])

\* The width grown from the current anchor under tolerance tol.
WidthAt(t, tol) == RectWidth(data[t], visited[t], x[t], y[t], tol)

\* The height grown from the current anchor under tolerance tol.
HeightAt(t, tol) ==
  RectHeight(data[t], visited[t], x[t], y[t], WidthAt(t, tol), tol)

\* C3 as stated (tolerance monotonicity of the area): from any anchor, with the
\* buffer and the visited mask fixed, a larger tolerance never grows a rectangle
\* of smaller area.
C3_AreaMonotone ==
  \A t \in Invocations :
    AtAnchor(t) =>
      \A tol1, tol2 \in Tolerances :
        tol1 <= tol2 =>
          WidthAt(t, tol1) * HeightAt(t, tol1) <= WidthAt(t, tol2) * HeightAt(t, tol2)

\* C3 as amended: from any anchor, with the buffer and the visited mask fixed, a
\* larger tolerance never grows a narrower rectangle, and when the two widths
\* are equal it never grows a lower one.
C3_WidthMonotone ==
  \A t \in Invocations :
    AtAnchor(t) =>
      \A tol1, tol2 \in Tolerances :
        tol1 <= tol2 =>
          /\ WidthAt(t, tol1) <= WidthAt(t, tol2)
          /\ WidthAt(t, tol1) = WidthAt(t, tol2) => HeightAt(t, tol1) <= HeightAt(t, tol2)

\* An anchor from which the larger tolerance grows a wider rectangle of smaller area.
C3_Witness ==
  \E t \in Invocations :
    /\ AtAnchor(t)
    /\ \E tol1, tol2 \in Tolerances :
         /\ tol1 < tol2
         /\ WidthAt(t, tol1) < WidthAt(t, tol2)
         /\ WidthAt(t, tol1) * HeightAt(t, tol1) > WidthAt(t, tol2) * HeightAt(t, tol2)

\* C4 (colour comparator): a call isColorSimilar(c1, c2, tol) returns a boolean,
\* and returns true exactly when c1 = c2, or both alphas are below 2, or the
\* alpha, red, green and blue channels each differ by at most tol.
C4_Comparator ==
  cmp.called =>
    /\ cmp.res \in BOOLEAN
    /\ cmp.res <=>
         \/ cmp.c1 = cmp.c2
         \/ Alpha(cmp.c1) < 2 /\ Alpha(cmp.c2) < 2
         \/ /\ Abs(Alpha(cmp.c1) - Alpha(cmp.c2)) <= cmp.tol
            /\ Abs(Red(cmp.c1) - Red(cmp.c2)) <= cmp.tol
            /\ Abs(Green(cmp.c1) - Green(cmp.c2)) <= cmp.tol
            /\ Abs(Blue(cmp.c1) - Blue(cmp.c2)) <= cmp.tol

\* A call at tolerance 0 on two near-transparent colours of alpha 0 and 1 and
\* different RGB, answered true.
C4_Witness ==
  /\ cmp.called
  /\ cmp.res
  /\ cmp.tol = 0
  /\ Alpha(cmp.c1) = 0
  /\ Alpha(cmp.c2) = 1
  /\ Red(cmp.c1) # Red(cmp.c2)

\* C5 as stated (transparent pixels carry no geometry): when the grow phase has
\* finished, every pixel of alpha < 2 was visited as a geometry-free skip and
\* lies inside no committed RegionRect.
C5_TransparentNoGeometry ==
  \A t \in Invocations :
    GrowDone(t) =>
      \A idx \in 0..(total(t) - 1) :
        Alpha(data[t].px[idx + 1]) < ALPHA_MIN =>
          /\ idx \in skipped[t]
          /\ \A i \in DOMAIN rects[t] : idx \notin CellsOf(t, rects[t][i])

\* Every pixel of the raster has alpha < 2.
AllTransparent(buf) == \A i \in DOMAIN buf.px : Alpha(buf.px[i]) < ALPHA_MIN

\* C6 (no transparent anchor): every committed RegionRect carries the colour of
\* its anchor pixel, of alpha >= 2, and every PathGroup key has alpha >= 2; on a
\* raster whose pixels all have alpha < 2 no RegionRect is committed and no
\* PathGroup created, all W*H pixels end visited, and the document has no shape.
C6_NoTransparentAnchor ==
  \A t \in Invocations :
    /\ \A i \in DOMAIN rects[t] :
         /\ rects[t][i].colorKey =
              data[t].px[rects[t][i].y * targetWidth(t) + rects[t][i].x + 1]
         /\ Alpha(rects[t][i].colorKey) >= ALPHA_MIN
    /\ \A i \in DOMAIN colorPaths[t] : Alpha(colorPaths[t][i].color) >= ALPHA_MIN
    /\ AllTransparent(data[t]) =>
         /\ rects[t] = << >>
         /\ colorPaths[t] = << >>
         /\ GrowDone(t) =>
              /\ processed[t] = total(t)
              /\ \A i \in 1..total(t) : visited[t][i] = 1
         /\ pc[t] = "done" => result[t].doc.paths = << >>

\* A finished trace of a raster of two or more near-transparent pixels, not all
\* of one colour.
C6_Witness ==
  \E t \in Invocations :
    /\ pc[t] = "done"
    /\ AllTransparent(data[t])
    /\ \E i, j \in DOMAIN data[t].px : data[t].px[i] # data[t].px[j]

\* Every pixel of the raster has the same colour, of alpha >= 2.
Uniform(buf) ==
  /\ \A i \in DOMAIN buf.px : buf.px[i] = buf.px[1]
  /\ Alpha(buf.px[1]) >= ALPHA_MIN

\* C7 (uniform image): the trace of a W x H raster of one colour of alpha >= 2
\* commits exactly the RegionRect (0, 0, W, H), creates exactly one PathGroup of
\* exactly one command, and that command is the rectangle bled by 0.2 on every
\* side: M-0.2,-0.2 h(W+0.4) v(H+0.4) h-(W+0.4) z.
C7_Uniform ==
  \A t \in Invocations :
    (Uniform(data[t]) /\ GrowDone(t)) =>
      /\ rects[t] = << [x |-> 0, y |-> 0, w |-> targetWidth(t), h |-> targetHeight(t),
                        colorKey |-> data[t].px[1]] >>
      /\ colorPaths[t] =
           << [color |-> data[t].px[1],
               d |-> << [mx |-> 0 - 2, my |-> 0 - 2,
                         h |-> 10 * targetWidth(t) + 4,
                         v |-> 10 * targetHeight(t) + 4,
                         back |-> 0 - (10 * targetWidth(t) + 4)] >>] >>

\* A finished trace of a uniform raster taller than one batch.
C7_Witness ==
  \E t \in Invocations :
    pc[t] = "done" /\ Uniform(data[t]) /\ targetHeight(t) > BATCH_ROWS

\* The colour of the 2 x 2 block q (0..3, row-major) of a 4 x 4 raster.
BlockColor(buf, q) == buf.px[(2 * (q \div 2)) * 4 + 2 * (q % 2) + 1]

\* A 4 x 4 raster of four 2 x 2 blocks of four pairwise distinct opaque colours.
IsQuadrants(buf) ==
  /\ buf.w = 4
  /\ buf.h = 4
  /\ \A i \in 1..16 :
       buf.px[i] = BlockColor(buf, 2 * (((i - 1) \div 4) \div 2) + (((i - 1) % 4) \div 2))
  /\ \A q \in 0..3 : Alpha(BlockColor(buf, q)) = 255
  /\ \A q1, q2 \in 0..3 : q1 # q2 => BlockColor(buf, q1) # BlockColor(buf, q2)

\* The bled command of the 2 x 2 block q.
BlockCommand(q) ==
  [mx |-> 10 * (2 * (q % 2)) - 2, my |-> 10 * (2 * (q \div 2)) - 2,
   h |-> 24, v |-> 24, back |-> 0 - 24]

\* C8 (four quadrants): at tolerance 0 the trace of a 4 x 4 raster of four 2 x 2
\* blocks of pairwise distinct opaque colours commits exactly four 2 x 2
\* RegionRects, anchored at (0,0), (2,0), (0,2), (2,2) in that order, and creates
\* four PathGroups, one per colour, each of the one command of its block bled by
\* 0.2: M(x-0.2),(y-0.2) h2.4 v2.4 h-2.4 z.
C8_Quadrants ==
  \A t \in Invocations :
    (IsQuadrants(data[t]) /\ tolerance[t] = 0 /\ GrowDone(t)) =>
      /\ rects[t] = [i \in 1..4 |->
                       [x |-> 2 * ((i - 1) % 2), y |-> 2 * ((i - 1) \div 2),
                        w |-> 2, h |-> 2, colorKey |-> BlockColor(data[t], i - 1)]]
      /\ colorPaths[t] = [i \in 1..4 |->
                            [color |-> BlockColor(data[t], i - 1),
                             d |-> << BlockCommand(i - 1) >>]]
      /\ pc[t] = "done" => Len(result[t].doc.paths) = 4

\* A finished trace of a four-quadrant raster at tolerance 0.
C8_Witness ==
  \E t \in Invocations :
    pc[t] = "done" /\ IsQuadrants(data[t]) /\ tolerance[t] = 0

\* C9 (failure is terminal and precedes the grow work): the load is attempted at
\* most once; an invocation fails only from the load or the context
\* acquisition, and a failed invocation has a rejected result with no document,
\* has never called onProgress, has no visited mask and no RegionRect, has
\* attempted the load exactly once, and takes no further step.
C9_FailureTerminal ==
  \A t \in Invocations :
    /\ loads[t] <= 1
    /\ result[t].status = "rejected" <=> pc[t] = "failed"
    /\ pc[t] = "failed" =>
         /\ result[t].error \in {"LoadError", "RuntimeError"}
         /\ result[t].doc = << >>
         /\ progress[t] = << >>
         /\ yields[t] = 0
         /\ visited[t] = << >>
         /\ rects[t] = << >>
         /\ skipped[t] = {}
         /\ loads[t] = 1
         /\ ~ENABLED Step(t)

\* An invocation failed by the context acquisition, after a successful load.
C9_Witness ==
  \E t \in Invocations :
    pc[t] = "failed" /\ result[t].error = "RuntimeError"

\* C10 as stated (batch schedule): onProgress is called once after each batch of
\* up to 25 rows, ceil(H / 25) times in all; each value is
\* floor(100 * v / (W * H)) for the number v of pixels visited at the call, an
\* integer in 0..100; each call is followed by exactly one yield, and there is
\* no other yield.
C10_BatchSchedule ==
  \A t \in Invocations :
    /\ yields[t] = Len(progress[t])
    /\ \A i \in DOMAIN progress[t] : progress[t][i] \in 0..100
    /\ pc[t] = "scan" => Len(progress[t]) = batchY[t] \div BATCH_ROWS
    /\ pc[t] = "yield" =>
         /\ Len(progress[t]) = batchY[t] \div BATCH_ROWS + 1
         /\ progress[t][Len(progress[t])] = (100 * processed[t]) \div total(t)
    /\ GrowDone(t) =>
         Len(progress[t]) = (targetHeight(t) + BATCH_ROWS - 1) \div BATCH_ROWS

\* The schedule of C10 without the value of each call.
C10_ScheduleOnly ==
  \A t \in Invocations :
    /\ yields[t] = Len(progress[t])
    /\ \A i \in DOMAIN progress[t] : progress[t][i] \in 0..100
    /\ pc[t] = "scan" => Len(progress[t]) = batchY[t] \div BATCH_ROWS
    /\ pc[t] = "yield" => Len(progress[t]) = batchY[t] \div BATCH_ROWS + 1
    /\ GrowDone(t) =>
         Len(progress[t]) = (targetHeight(t) + BATCH_ROWS - 1) \div BATCH_ROWS

\* -------------------------------------------------------------- path groups

\* The ColorKeys used as an anchor so far.
AnchorKeys(t) == {rects[t][i].colorKey : i \in DOMAIN rects[t]}

\* The command of a committed rect.
CommandOf(r) == PathCommand(r.x, r.y, r.w, r.h)

\* The ColorKey of the buffer at (cx, cy).
KeyAt(t, cx, cy) == data[t].px[cy * targetWidth(t) + cx + 1]

\* C11 (grouping by anchor ColorKey): the command of every committed rect is in
\* the group keyed by the packed colour of its anchor pixel and in no other
\* group; the groups are keyed by the distinct anchor ColorKeys, one group per
\* key; no group is empty and a group holds as many commands as rects have its
\* key as anchor; the document has one shape per group, filled with the
\* channels of the group's key and carrying the group's commands.
C11_AnchorGrouping ==
  \A t \in Invocations :
    LET paths == colorPaths[t] IN
    /\ \A i, j \in DOMAIN paths : i # j => paths[i].color # paths[j].color
    /\ {paths[k].color : k \in DOMAIN paths} = AnchorKeys(t)
    /\ \A i \in DOMAIN rects[t] :
         LET r == rects[t][i] IN
         /\ r.colorKey = KeyAt(t, r.x, r.y)
         /\ \A k \in DOMAIN paths :
              (\E n \in DOMAIN paths[k].d : paths[k].d[n] = CommandOf(r))
                <=> paths[k].color = r.colorKey
    /\ \A k \in DOMAIN paths :
         /\ Len(paths[k].d) >= 1
         /\ Len(paths[k].d) =
              Cardinality({i \in DOMAIN rects[t] : rects[t][i].colorKey = paths[k].color})
    /\ pc[t] = "done" =>
         LET shapes == result[t].doc.paths IN
         /\ Len(shapes) = Cardinality(AnchorKeys(t))
         /\ \A k \in DOMAIN shapes :
              /\ shapes[k].d = paths[k].d
              /\ Len(shapes[k].d) >= 1
              /\ shapes[k].r = Red(paths[k].color)
              /\ shapes[k].g = Green(paths[k].color)
              /\ shapes[k].b = Blue(paths[k].color)
              /\ shapes[k].a = AlphaFixed4(Alpha(paths[k].color))
         /\ \A j, k \in DOMAIN shapes :
              j # k => <<shapes[j].r, shapes[j].g, shapes[j].b, shapes[j].a>>
                        # <<shapes[k].r, shapes[k].g, shapes[k].b, shapes[k].a>>

\* A finished trace with two shapes, one of whose rects covers a pixel whose
\* ColorKey is not the anchor's, and one key used as anchor twice.
C11_Witness ==
  \E t \in Invocations :
    /\ pc[t] = "done"
    /\ Len(result[t].doc.paths) = 2
    /\ \E k \in DOMAIN colorPaths[t] : Len(colorPaths[t][k].d) = 2
    /\ \E i \in DOMAIN rects[t] :
         LET r == rects[t][i] IN
         \E cx \in r.x .. r.x + r.w - 1, cy \in r.y .. r.y + r.h - 1 :
           KeyAt(t, cx, cy) # r.colorKey

\* The commit index of the first rect anchored at ColorKey key.
FirstUse(t, key) ==
  CHOOSE i \in DOMAIN rects[t] :
    /\ rects[t][i].colorKey = key
    /\ \A j \in 1..(i - 1) : rects[t][j].colorKey # key

\* The commit index of the n-th rect anchored at ColorKey key.
NthUse(t, key, n) ==
  CHOOSE i \in DOMAIN rects[t] :
    /\ rects[t][i].colorKey = key
    /\ Cardinality({j \in 1..i : rects[t][j].colorKey = key}) = n

\* C12 (output order): the groups, and the shapes of the document, are in the
\* order in which their ColorKeys were first used as an anchor, not sorted by
\* key; within a group or shape the commands are in the commit order of their
\* rects.
C12_InsertionOrder ==
  \A t \in Invocations :
    LET paths == colorPaths[t] IN
    /\ \A j, k \in DOMAIN paths :
         j < k => FirstUse(t, paths[j].color) < FirstUse(t, paths[k].color)
    /\ \A k \in DOMAIN paths : \A n \in DOMAIN paths[k].d :
         paths[k].d[n] = CommandOf(rects[t][NthUse(t, paths[k].color, n)])
    /\ pc[t] = "done" =>
         LET shapes == result[t].doc.paths IN
         /\ DOMAIN shapes = DOMAIN paths
         /\ \A k \in DOMAIN shapes :
              /\ <<shapes[k].r, shapes[k].g, shapes[k].b>> =
                   <<Red(paths[k].color), Green(paths[k].color), Blue(paths[k].color)>>
              /\ \A n \in DOMAIN paths[k].d :
                   shapes[k].d[n] = CommandOf(rects[t][NthUse(t, paths[k].color, n)])

\* A finished trace whose first shape has the larger key and two commands, with
\* a rect of the second shape committed between them.
C12_Witness ==
  \E t \in Invocations :
    /\ pc[t] = "done"
    /\ Len(rects[t]) = 3
    /\ Len(result[t].doc.paths) = 2
    /\ rects[t][1].colorKey = RED1
    /\ rects[t][2].colorKey = RED
    /\ rects[t][3].colorKey = RED1
    /\ Len(result[t].doc.paths[1].d) = 2
    /\ result[t].doc.paths[1].r = Red(RED1)
    /\ result[t].doc.paths[1].g = Green(RED1)

\* -------------------------------------------------------------- target size

\* C13 (no upscaling before super-sampling): the target size is at most the
\* source size times superSample and at most the box times superSample, in
\* each dimension; a source that fits the box is scaled by superSample exactly.
C13_TargetBounds ==
  dims.called =>
    /\ dims.targetWidth <= dims.srcW * dims.superSample
    /\ dims.targetHeight <= dims.srcH * dims.superSample
    /\ dims.targetWidth <= dims.maxWidth * dims.superSample
    /\ dims.targetHeight <= dims.maxHeight * dims.superSample
    /\ (dims.srcW <= dims.maxWidth /\ dims.srcH <= dims.maxHeight) =>
         /\ dims.targetWidth = dims.srcW * dims.superSample
         /\ dims.targetHeight = dims.srcH * dims.superSample

\* A source wider than its box whose scaled width rounds above the box width
\* (25 * (7 / 25) is the double above 7) and is floored back to it.
C13_Witness ==
  /\ dims.called
  /\ dims.srcW = 25
  /\ dims.maxWidth = 7
  /\ dims.superSample = 2
  /\ dims.targetWidth = 14
  /\ DblLess(DblMulInt(DblOne, 7), DblMulInt(DblDiv(7, 25), 25))

\* C16 as stated (positive target size): for a source, a box and a superSample
\* factor that are all at least 1, targetWidth and targetHeight are at least 1.
C16_PositiveTarget ==
  dims.called => dims.targetWidth >= 1 /\ dims.targetHeight >= 1

\* ------------------------------------------------------------- concurrency

\* What a call leaves behind: its final locals, its calls of onProgress and
\* the promise's value.
Outcome(t) ==
  <<rects[t], result[t], progress[t], yields[t], colorPaths[t], visited[t],
    processed[t], skipped[t]>>

\* C14 (interleaved calls are independent): a call interleaved with another
\* call at its suspensions ends with the same rects, the same document and the
\* same progress values as a call on the same input that runs with no other
\* call in progress; its buffer, mask, counter and groups are the same too.
C14_Independent ==
  \A t \in Invocations \cap {1, 2} :
    (pc[t] = "done" /\ pc[t + 2] = "done") => Outcome(t) = Outcome(t + 2)

\* Two calls on different multi-batch inputs, both suspended twice, and the
\* calls run on their own, all finished.
C14_Witness ==
  /\ Invocations = 1..4
  /\ \A t \in 1..4 : pc[t] = "done"
  /\ data[1] # data[2]
  /\ yields[1] >= 2
  /\ yields[2] >= 2
  /\ Len(rects[1]) >= 2
  /\ skipped[2] # {}

\* Both calls of a pair suspended in the middle of their traces.
C14_Interleaved ==
  /\ Invocations = 1..4
  /\ pc[1] = "yield"
  /\ pc[2] = "yield"
  /\ batchY[1] = 0
  /\ batchY[2] = BATCH_ROWS

\* ------------------------------------------------------------- termination

\* A call is between the allocation of its mask and its return.
Tracing == \E t \in Invocations : pc[t] \in {"scan", "report", "yield", "serialize"}

\* Every call has returned a document.
Returned ==
  \A t \in Invocations : pc[t] = "done" /\ result[t].status = "resolved"

\* C15 (termination): once the image is loaded and the context acquired, the
\* trace reaches the return of a document, provided every suspension at a batch
\* boundary is eventually resumed; no scan position, growth or batch boundary
\* is a state the trace stays in or comes back to for ever.
C15_Terminates == Tracing ~> Returned

\* A trace of three batches that has returned.
C15_Witness ==
  \E t \in Invocations :
    /\ pc[t] = "done"
    /\ result[t].status = "resolved"
    /\ yields[t] = 3
    /\ Len(rects[t]) >= 2

\* -------------------------------------------------------------- batch size

\* C17 (the batch size does not change the result): the same buffer at the
\* same tolerance gives the same rects in the same order, the same groups and
\* the same document with batches of BATCH_ROWS rows, of any other size or as
\* one unbatched pass; the batch size sets only the number of onProgress calls
\* and suspensions, one per batch.
C17_BatchIndependent ==
  (Invocations = 1..2 /\ pc[1] = "done" /\ pc[2] = "done") =>
    /\ rects[1] = rects[2]
    /\ colorPaths[1] = colorPaths[2]
    /\ result[1] = result[2]
    /\ visited[1] = visited[2]
    /\ skipped[1] = skipped[2]
    /\ \A t \in 1..2 :
         /\ yields[t] = (targetHeight(t) + batchRows[t] - 1) \div batchRows[t]
         /\ Len(progress[t]) = yields[t]

\* The same buffer traced in one batch and in one-row batches, with a rect
\* two rows high and two groups; the progress calls differ.
C17_Witness ==
  /\ Invocations = 1..2
  /\ pc[1] = "done"
  /\ pc[2] = "done"
  /\ batchRows[2] = 1
  /\ yields[1] = 1
  /\ yields[2] >= 3
  /\ progress[1] # progress[2]
  /\ Len(colorPaths[2]) = 2
  /\ \E i \in DOMAIN rects[2] : rects[2][i].h = 2

\* --------------------------------------------------------------- scan order

\* The row-major index of (cx, cy) in the buffer of invocation t.
IndexOf(t, cx, cy) == cy * targetWidth(t) + cx

\* Every pixel of row-major index below n is visited.
VisitedBelow(t, n) == \A i \in 1..n : visited[t][i] = 1

\* The state part of C18: at a scan position every earlier pixel is visited;
\* the anchors of the committed rects have increasing row-major index; at the
\* progress call and the suspension that end a batch, every row above the
\* batch's end is visited.
ScanOrder ==
  \A t \in Invocations :
    /\ pc[t] = "scan" => VisitedBelow(t, IndexOf(t, x[t], y[t]))
    /\ \A i, j \in DOMAIN rects[t] :
         i < j => IndexOf(t, rects[t][i].x, rects[t][i].y)
                    < IndexOf(t, rects[t][j].x, rects[t][j].y)
    /\ pc[t] \in {"report", "yield"} =>
         /\ y[t] = endY(t)
         /\ VisitedBelow(t, endY(t) * targetWidth(t))

\* The step part of C18: a step that commits a rect anchors it at the first
\* pixel, in row-major order, that was unvisited before the step.
AnchorFirst ==
  \A t \in Invocations :
    Len(rects'[t]) = Len(rects[t]) + 1 =>
      LET r == rects'[t][Len(rects'[t])] IN
      /\ visited[t][IndexOf(t, r.x, r.y) + 1] = 0
      /\ VisitedBelow(t, IndexOf(t, r.x, r.y))

\* C18 (row-major scan order): when the scanner examines (x, y) every pixel of
\* smaller row-major index is visited; successive anchors have strictly
\* increasing row-major index; each anchor is the first unvisited pixel in
\* row-major order when it is picked; at the progress call ending a batch at
\* row endY every pixel of the rows above endY is visited.
C18_RowMajor == []ScanOrder /\ [][AnchorFirst]_vars

\* The scanner at an unvisited opaque pixel off the first row and column,
\* after two rects and a transparent skip.
C18_Witness ==
  \E t \in Invocations :
    /\ pc[t] = "scan"
    /\ x[t] > 0
    /\ y[t] > 0
    /\ visited[t][IndexOf(t, x[t], y[t]) + 1] = 0
    /\ ~IsTransparent(KeyAt(t, x[t], y[t]))
    /\ Len(rects[t]) = 2
    /\ skipped[t] # {}

\* ------------------------------------------------------------------- growth

\* The step commits a rect of invocation t.
Commits(t) == Len(rects'[t]) = Len(rects[t]) + 1

\* The rect the step commits.
Committed(t) == rects'[t][Len(rects'[t])]

\* Before the step, (cx, cy) is unvisited and tolerance-similar to key.
Free(t, key, cx, cy) ==
  /\ visited[t][IndexOf(t, cx, cy) + 1] = 0
  /\ isColorSimilar(key, KeyAt(t, cx, cy), tolerance[t])

\* The rect committed by a step cannot grow right nor down; its width is the
\* run of free pixels of the anchor row, its height the run of free rows.
Maximal ==
  \A t \in Invocations :
    Commits(t) =>
      LET r == Committed(t) IN
      /\ \A cx \in r.x .. (r.x + r.w - 1) : Free(t, r.colorKey, cx, r.y)
      /\ \/ r.x + r.w = targetWidth(t)
         \/ ~Free(t, r.colorKey, r.x + r.w, r.y)
      /\ \A cy \in (r.y + 1) .. (r.y + r.h - 1) :
           \A cx \in r.x .. (r.x + r.w - 1) : Free(t, r.colorKey, cx, cy)
      /\ \/ r.y + r.h = targetHeight(t)
         \/ \E cx \in r.x .. (r.x + r.w - 1) : ~Free(t, r.colorKey, cx, r.y + r.h)

\* C19 (greedy maximality): at its commit a rect (x, y, w, h) has x + w = W or
\* the pixel (x + w, y) visited or not tolerance-similar to the anchor, and
\* y + h = H or a pixel of row y + h in columns [x, x + w) visited or not
\* similar; the width is the free run of the anchor row, fixed before the
\* height grows and not narrowed for a taller rect.
C19_GreedyMaximal == [][Maximal]_vars

\* A rect two wide and one high, not at the bottom, whose first column could
\* have gone on down: the pixel under its anchor is free of visits and
\* similar, the one under its second column is not similar.
C19_Witness ==
  \E t \in Invocations : \E i \in DOMAIN rects[t] :
    LET r == rects[t][i] IN
    /\ r.w = 2
    /\ r.h = 1
    /\ r.y + 1 < targetHeight(t)
    /\ isColorSimilar(r.colorKey, KeyAt(t, r.x, r.y + 1), tolerance[t])
    /\ ~isColorSimilar(r.colorKey, KeyAt(t, r.x + 1, r.y + 1), tolerance[t])
    /\ \E j \in DOMAIN rects[t] : rects[t][j].x = r.x /\ rects[t][j].y = r.y + 1

\* The rect committed by a step is inside the buffer, at least 1 x 1, anchored
\* at a pixel of alpha >= ALPHA_MIN, and covers only pixels that were
\* unvisited before the step and are similar to the anchor; the step marks them.
Sound ==
  \A t \in Invocations :
    Commits(t) =>
      LET r == Committed(t) IN
      /\ r.w >= 1
      /\ r.h >= 1
      /\ r.x >= 0
      /\ r.y >= 0
      /\ r.x + r.w <= targetWidth(t)
      /\ r.y + r.h <= targetHeight(t)
      /\ r.colorKey = KeyAt(t, r.x, r.y)
      /\ Alpha(r.colorKey) >= ALPHA_MIN
      /\ \A cx \in r.x .. (r.x + r.w - 1), cy \in r.y .. (r.y + r.h - 1) :
           /\ Free(t, r.colorKey, cx, cy)
           /\ visited'[t][IndexOf(t, cx, cy) + 1] = 1

\* C20 (rect soundness): every committed rect has w >= 1 and h >= 1, lies
\* inside the buffer, is anchored at a pixel of alpha >= 2, and covers only
\* pixels that were unvisited immediately before the commit and are
\* tolerance-similar, at the trace's tolerance, to the anchor's colour.
C20_RectSound == [][Sound]_vars

\* A committed 2 x 2 rect that covers a pixel whose ColorKey is not the anchor's.
C20_Witness ==
  \E t \in Invocations : \E i \in DOMAIN rects[t] :
    LET r == rects[t][i] IN
    /\ r.w = 2
    /\ r.h = 2
    /\ \E cx \in r.x .. (r.x + 1), cy \in r.y .. (r.y + 1) : KeyAt(t, cx, cy) # r.colorKey

\* ------------------------------------------------------- mask and counter

\* The number of set cells of the visited mask of invocation t.
SetCells(t) == Cardinality({ i \in DOMAIN visited[t] : visited[t][i] = 1 })

\* The state part of C21: the counter is the number of set cells, between 0
\* and W*H.
CounterIsMask ==
  \A t \in Invocations :
    /\ processed[t] = SetCells(t)
    /\ 0 <= processed[t]
    /\ processed[t] <= total(t)

\* The step part of C21: once the mask is allocated no step shortens it or
\* unsets a cell of it, and no step lowers the counter.
MaskGrows ==
  \A t \in Invocations :
    /\ processed'[t] >= processed[t]
    /\ visited[t] # << >> =>
         /\ DOMAIN visited'[t] = DOMAIN visited[t]
         /\ \A i \in DOMAIN visited[t] : visited[t][i] = 1 => visited'[t][i] = 1

\* C21 (visited mask and counter): during a trace no visited cell goes from
\* set back to unset, and in every reachable state `processed` equals the
\* number of set cells of the visited mask, so 0 <= processed <= W*H and
\* processed never decreases.
C21_MaskCounter == []CounterIsMask /\ [][MaskGrows]_vars

\* A trace resumed for its second batch with part of the mask set, by a
\* transparent skip and by a rect of more than one cell, and part of it unset.
C21_Witness ==
  \E t \in Invocations :
    /\ pc[t] = "scan"
    /\ batchY[t] > 0
    /\ skipped[t] # {}
    /\ \E i \in DOMAIN rects[t] : rects[t][i].w * rects[t][i].h > 1
    /\ processed[t] > Cardinality(skipped[t]) + 1
    /\ processed[t] < total(t)

\* ----------------------------------------------------- exact reconstruction

\* The committed rects of invocation t that cover pixel idx.
Covering(t, idx) == { i \in DOMAIN rects[t] : idx \in CellsOf(t, rects[t][i]) }

\* Pixel idx is drawn in colour key: one rect covers it, anchored at key, and
\* the rect's command is in the group of key.
DrawnAs(t, idx, key) ==
  /\ Cardinality(Covering(t, idx)) = 1
  /\ \A i \in Covering(t, idx) :
       /\ rects[t][i].colorKey = key
       /\ \E k \in DOMAIN colorPaths[t] :
            /\ colorPaths[t][k].color = key
            /\ \E n \in DOMAIN colorPaths[t][k].d :
                 colorPaths[t][k].d[n] = CommandOf(rects[t][i])

\* C22 (exact reconstruction at tolerance 0): with tolerance = 0 every pixel
\* covered by a committed rect has exactly the packed value of the rect's
\* anchor; when the grow phase has finished every pixel of alpha >= 2 is
\* drawn by one rect of its own ColorKey, whose shape in the document carries
\* the pixel's own channels, and every pixel of alpha < 2 is skipped and
\* covered by no rect.
C22_ExactAtZero ==
  \A t \in Invocations :
    tolerance[t] = 0 =>
      /\ \A i \in DOMAIN rects[t] :
           \A idx \in CellsOf(t, rects[t][i]) :
             data[t].px[idx + 1] = rects[t][i].colorKey
      /\ \A idx \in skipped[t] : Alpha(data[t].px[idx + 1]) < ALPHA_MIN
      /\ GrowDone(t) =>
           \A idx \in 0..(total(t) - 1) :
             LET key == data[t].px[idx + 1] IN
             IF Alpha(key) < ALPHA_MIN
             THEN idx \in skipped[t] /\ Covering(t, idx) = {}
             ELSE /\ idx \notin skipped[t]
                  /\ DrawnAs(t, idx, key)
                  /\ pc[t] = "done" =>
                       \E k \in DOMAIN result[t].doc.paths :
                         LET shape == result[t].doc.paths[k] IN
                         /\ <<shape.r, shape.g, shape.b>>
                              = <<Red(key), Green(key), Blue(key)>>
                         /\ shape.a = AlphaFixed4(Alpha(key))
                         /\ \A i \in Covering(t, idx) :
                              \E n \in DOMAIN shape.d : shape.d[n] = CommandOf(rects[t][i])

\* A finished trace at tolerance 0 of a buffer with two colours one step
\* apart each anchoring a rect, a rect of more than one pixel, and a skipped
\* pixel.
C22_Witness ==
  \E t \in Invocations :
    /\ tolerance[t] = 0
    /\ pc[t] = "done"
    /\ \E i \in DOMAIN rects[t] : rects[t][i].w * rects[t][i].h > 1
    /\ \E i, j \in DOMAIN rects[t] :
         /\ rects[t][i].colorKey = RED
         /\ rects[t][j].colorKey = RED1
    /\ skipped[t] # {}

\* ---------------------------------------------------------------- retries

\* Every call of fn made so far has failed.
AllFailed == \A k \in DOMAIN retry.log : retry.log[k] = "err"

\* C23 (retries): fetchWithRetry(fn, retries, delay) with retries >= 0 calls fn
\* at most retries + 1 times (6 with the defaults), one call after another;
\* it returns the result of the first call that succeeds and makes no call
\* after a success; when all retries + 1 calls fail it fails with the error of
\* the last call, and not before; the wait before the k-th retry is
\* delay * 2^(k-1).
C23_Retries ==
  /\ retry.calls <= retry.retries0 + 1
  /\ (retry.retries0 = RETRIES) => retry.calls <= 6
  /\ retry.inflight \in {0, 1}
  /\ retry.inflight = 1 <=> retry.pc = "calling"
  /\ retry.calls = Len(retry.log) + retry.inflight
  /\ \A k \in DOMAIN retry.log :
       retry.log[k] = "ok" =>
         /\ k = Len(retry.log)
         /\ retry.calls = k
         /\ retry.pc = "returned"
  /\ retry.status = "resolved" <=> retry.pc = "returned"
  /\ retry.status = "resolved" =>
       /\ retry.from = Len(retry.log)
       /\ retry.log[retry.from] = "ok"
       /\ \A k \in 1..(retry.from - 1) : retry.log[k] = "err"
  /\ retry.status = "rejected" <=> retry.pc = "thrown"
  /\ retry.status = "rejected" <=> (AllFailed /\ Len(retry.log) = retry.retries0 + 1)
  /\ retry.status = "rejected" => retry.from = retry.retries0 + 1
  /\ Len(retry.waits) <= retry.retries0
  /\ Len(retry.waits) = (IF retry.pc = "waiting" THEN retry.calls
                         ELSE IF retry.calls = 0 THEN 0 ELSE retry.calls - 1)
  /\ \A k \in DOMAIN retry.waits : retry.waits[k] = retry.delay0 * (2 ^ (k - 1))

\* The default call, failed after six calls of fn and waits of 1, 2, 4, 8
\* and 16 seconds.
C23_Witness ==
  /\ retry.retries0 = RETRIES
  /\ retry.delay0 = DELAY
  /\ retry.pc = "thrown"
  /\ retry.calls = 6
  /\ retry.waits = <<1000, 2000, 4000, 8000, 16000>>

\* A call that returned the value of its third call of fn, after two failures.
C23_WitnessSuccess ==
  /\ retry.pc = "returned"
  /\ retry.log = <<"err", "err", "ok">>
  /\ retry.retries0 > 2

\* -------------------------------------------------------- processing flag

\* C24 (the processing flag is released): whenever handleBgRemovalClick,
\* handleUpscale or handleVectorize has raised processing.isProcessing, once
\* its operation has settled (a result, a null AI result, or a failure) and
\* the handler has run to its end the flag is down again.
C24_FlagReleased == app.handler = "none" => ~app.isProcessing

====
